---------------------------- MODULE Spec2Model ----------------------------
(***************************************************************************)
(* Masked normalized cross-correlation (skimage/feature/_mnxc.py) as a     *)
(* state machine over exact arithmetic.                                    *)
(*                                                                         *)
(* Numbers.  Pixel values are integers; every intermediate quantity of the *)
(* kernel is then a rational, kept as a reduced fraction [n, d].  The      *)
(* denominator of the correlation is a square root: it is kept through its *)
(* radicand, and a quotient x / sqrt(r) is kept as sign and square.        *)
(* Machine epsilon is the dyadic number 2^-52; overlap counts are dyadic   *)
(* numbers n / 2^e so that the epsilon floor is a value of its own.        *)
(* Floating-point round-off is outside this model.                         *)
(*                                                                         *)
(* Transforms.  The forward transform zero-pads to `fast_shape`; a         *)
(* spectrum is represented by the padded signal it is the transform of,    *)
(* the product of two spectra by the circular convolution of their signals *)
(* (convolution theorem), and the inverse transform by reading that signal *)
(* back.                                                                   *)
(***************************************************************************)
EXTENDS Integers, Sequences, FiniteSets, TLC

VARIABLES
    heap,              \* array objects: caller's arr1, arr2, m1, m2 and call-local arrays
    mode, axes, overlap_ratio,      \* remaining arguments of mnxc
    fixed_image, fixed_mask, moving_image, moving_mask,  \* local names -> object ids
    numerator, denom, number_overlap_masked_px,          \* cropped surfaces
    out,               \* returned array, None before return
    transforms,        \* number of forward / inverse transforms performed
    raised,            \* "none" or the error raised
    pc,                \* position in mnxc / in the _flip harness
    flip_arr, flip_axes, flip_out,  \* argument and result of a direct _flip call
    cen_arr, cen_newshape, cen_axes, cen_out,  \* arguments and result of a direct _centered call
    matching, matching_is_str,      \* argument of expected_warnings; whether it is a str
    environ,                        \* os.environ: SKIMAGE_TEST_STRICT_WARNINGS or "unset"
    strict_warnings, w, remaining,  \* locals of expected_warnings
    warn_raised,                    \* "none" or the error leaving expected_warnings
    image_shape, return_all,        \* arguments of manual_polygon_segmentation
    list_of_vertex_lists, polygons_drawn, temp_list, preview_polygon_drawn,  \* its lists
    collections,                    \* the artists shown on `ax`
    labels,                         \* the returned label image, NoArray before return
    seg_raised,                     \* "none" or the error raised in the segmentation
    other_arr1, other_arr2, other_out,  \* images and result of a second call of mnxc
    fast_shape,                     \* transform lengths along `axes`
    exact_surfaces                  \* the surfaces computed at exactly final_shape

centeredvars == <<cen_arr, cen_newshape, cen_axes, cen_out>>
warnvars == <<matching, matching_is_str, environ, strict_warnings, w, remaining, warn_raised>>
seglists == <<list_of_vertex_lists, polygons_drawn, temp_list, preview_polygon_drawn>>
segvars == <<image_shape, return_all, seglists, collections, labels, seg_raised>>
othercall == <<other_arr1, other_arr2, other_out>>
padvars == <<fast_shape, exact_surfaces>>
harness == <<centeredvars, warnvars, segvars, othercall, padvars>>

vars == <<heap, mode, axes, overlap_ratio, fixed_image, fixed_mask, moving_image,
          moving_mask, numerator, denom, number_overlap_masked_px, out,
          transforms, raised, pc, flip_arr, flip_axes, flip_out, harness>>

None == "None"
ObjIds == {"arr1", "arr2", "m1", "m2",
           "fixed_image", "fixed_mask", "moving_image", "moving_mask"}

-----------------------------------------------------------------------------
(* Exact numbers *)

Abs(x) == IF x < 0 THEN -x ELSE x
Sign(x) == IF x < 0 THEN -1 ELSE IF x = 0 THEN 0 ELSE 1

RECURSIVE GCD(_, _)
GCD(a, b) == IF b = 0 THEN a ELSE GCD(b, a % b)

\* reduced fraction n / d, d > 0
Rat(n, d) ==
    LET g == GCD(Abs(n), Abs(d))
        s == IF d < 0 THEN -1 ELSE 1
    IN  [n |-> s * (n \div g), d |-> s * (d \div g)]

RatInt(k) == [n |-> k, d |-> 1]
RatSub(x, y) == Rat(x.n * y.d - y.n * x.d, x.d * y.d)
RatMul(x, y) == Rat(x.n * y.n, x.d * y.d)
RatLt(x, y) == x.n * y.d < y.n * x.d
RatSquare(x) == RatMul(x, x)

\* np.fmax(x, 0.0)
RatFmax0(x) == IF RatLt(x, RatInt(0)) THEN RatInt(0) ELSE x

\* np.round: nearest integer, ties to even
RatRound(x) ==
    LET fl == IF x.n >= 0 THEN x.n \div x.d ELSE -((-x.n + x.d - 1) \div x.d)
        twice == 2 * (x.n - fl * x.d)       \* 2 * fractional part * d
    IN  IF twice < x.d THEN fl
        ELSE IF twice > x.d THEN fl + 1
        ELSE IF fl % 2 = 0 THEN fl ELSE fl + 1

\* x * 2^k < y for naturals x, y, without forming 2^k
RECURSIVE Pow2Lt(_, _, _)
Pow2Lt(x, k, y) ==
    IF k = 0 THEN x < y
    ELSE IF k >= 16 THEN Pow2Lt(x, k - 16, (y + 65535) \div 65536)
    ELSE Pow2Lt(x, k - 1, (y + 1) \div 2)

RECURSIVE MulPow2(_, _)
MulPow2(x, k) ==
    IF k = 0 THEN x
    ELSE IF k >= 16 THEN MulPow2(65536 * x, k - 16)
    ELSE MulPow2(2 * x, k - 1)

\* np.finfo(np.float).eps = 2^-52
EpsExp == 52
\* dyadic numbers n / 2^e
Dy(n, e) == [n |-> n, e |-> e]
eps == Dy(1, EpsExp)

\* a * p < b * q for dyadic a, b and naturals p, q
DyScaledLt(a, p, b, q) ==
    IF a.e >= b.e
    THEN ~ Pow2Lt(b.n * q, a.e - b.e, a.n * p + 1)   \* not (b q 2^k <= a p)
    ELSE Pow2Lt(a.n * p, b.e - a.e, b.n * q)
DyLt(a, b) == DyScaledLt(a, 1, b, 1)

\* DyFmaxEps with a floor of 1
DyFmaxOne(k) == IF k < 1 THEN Dy(1, 0) ELSE Dy(k, 0)

\* np.fmax(round(x), eps) for a rounded count k
DyFmaxEps(k) == IF DyLt(Dy(k, 0), eps) THEN eps ELSE Dy(k, 0)

\* x / c for rational x and dyadic c > 0
RatDivDy(x, c) == Rat(MulPow2(x.n, c.e), x.d * c.n)

-----------------------------------------------------------------------------
(* N-dimensional arrays: [shape |-> <<n1, ..., nk>>, data |-> [Idx(shape) -> value]] *)
(* with 0-based index tuples in row-major order.                                     *)

NoArray == [shape |-> <<>>, data |-> <<>>]

RECURSIVE Size(_)
Size(shape) == IF shape = <<>> THEN 1 ELSE Head(shape) * Size(Tail(shape))

RECURSIVE Idx(_)
Idx(shape) ==
    IF shape = <<>> THEN {<<>>}
    ELSE {<<a>> \o t : a \in 0..(Head(shape) - 1), t \in Idx(Tail(shape))}

\* the n-th index of a shape in row-major order
Unravel(n, shape) ==
    [k \in 1..Len(shape) |-> (n \div Size(SubSeq(shape, k + 1, Len(shape)))) % shape[k]]

\* (f @@ <<>> is f; it makes TLC tabulate f once instead of re-evaluating F per access)
MkArray(shape, F(_)) == [shape |-> shape, data |-> [i \in Idx(shape) |-> F(i)] @@ <<>>]

\* F(v), with v evaluated once
With(v, F(_)) == CHOOSE r \in {F(x) : x \in {v}} : TRUE

\* Python axis number (negative counts from the end) -> position 1..ndim
Pos(ax, ndim) == IF ax < 0 THEN ax + ndim + 1 ELSE ax + 1

\* positions named by a tuple of axes
AxisPositions(axs, ndim) == {Pos(axs[i], ndim) : i \in 1..Len(axs)}

\* bounds <<lo, hi>> of the Python slice(start, stop) on an axis of length n
PySlice(start, stop, n) ==
    LET norm(v) == IF v < 0 THEN (IF v + n < 0 THEN 0 ELSE v + n)
                   ELSE IF v > n THEN n ELSE v
        lo == norm(start)
        hi == norm(stop)
    IN  <<lo, IF hi < lo THEN lo ELSE hi>>

\* arr[tuple(slice(lo[k], hi[k]) for k)] with bounds already resolved
Slice(arr, lo, hi) ==
    MkArray([k \in 1..Len(arr.shape) |-> hi[k] - lo[k]],
            LAMBDA i : arr.data[[k \in 1..Len(arr.shape) |-> i[k] + lo[k]]])

\* an optional `axes` argument: None, or a tuple of axes
AxesNone == [given |-> FALSE, axes |-> <<>>]
Given(axs) == [given |-> TRUE, axes |-> axs]

\* _flip that reverses over all axes whatever `axes` is
FlipAllAxes(arr, axs) ==
    MkArray(arr.shape,
            LAMBDA i : arr.data[[k \in 1..Len(arr.shape) |-> arr.shape[k] - 1 - i[k]]])

\* _flip: reverse over the given axes, over all axes when axes is None
_flip(arr, axs) ==
    LET nd == Len(arr.shape)
        reverse == IF ~ axs.given THEN 1..nd ELSE AxisPositions(axs.axes, nd)
    IN  MkArray(arr.shape,
                LAMBDA i : arr.data[[k \in 1..nd |->
                              IF k \in reverse THEN arr.shape[k] - 1 - i[k] ELSE i[k]]])

\* _centered starting at the rounded-up half of the size difference
CenteredCeil(arr, newshape, axs) ==
    LET nd == Len(arr.shape)
        currshape == arr.shape
        bounds(k) ==
            IF k \in AxisPositions(axs, nd)
            THEN LET startind == (currshape[k] - newshape[k] + 1) \div 2
                     endind == startind + newshape[k]
                 IN  PySlice(startind, endind, currshape[k])
            ELSE <<0, currshape[k]>>
    IN  Slice(arr, [k \in 1..nd |-> bounds(k)[1]], [k \in 1..nd |-> bounds(k)[2]])

\* _centered: the centre `newshape` portion along `axes`, other axes untouched
_centered(arr, newshape, axs) ==
    LET nd == Len(arr.shape)
        currshape == arr.shape
        \* the last assignment to slices[ax] wins when an axis is named twice
        bounds(k) ==
            IF k \in AxisPositions(axs, nd)
            THEN LET startind == (currshape[k] - newshape[k]) \div 2
                     endind == startind + newshape[k]
                 IN  PySlice(startind, endind, currshape[k])
            ELSE <<0, currshape[k]>>
    IN  Slice(arr, [k \in 1..nd |-> bounds(k)[1]], [k \in 1..nd |-> bounds(k)[2]])

-----------------------------------------------------------------------------
(* Transforms *)

RECURSIVE SmoothPart(_, _)
SmoothPart(n, p) == IF n % p = 0 THEN SmoothPart(n \div p, p) ELSE n

\* scipy.fftpack.next_fast_len: the smallest composite of 2, 3 and 5 that is >= n
RECURSIVE next_fast_len(_)
next_fast_len(n) ==
    IF SmoothPart(SmoothPart(SmoothPart(n, 2), 3), 5) = 1 THEN n ELSE next_fast_len(n + 1)

\* np.fft.fftn(x, s = s, axes = axs): x zero-padded (or cut) to s[i] along axs[i];
\* the value stands for the spectrum of that padded signal
fft(x, s, axs) ==
    LET nd == Len(x.shape)
        len(k) == IF \E i \in 1..Len(axs) : Pos(axs[i], nd) = k
                  THEN s[CHOOSE i \in 1..Len(axs) : Pos(axs[i], nd) = k]
                  ELSE x.shape[k]
    IN  MkArray([k \in 1..nd |-> len(k)],
                LAMBDA i : IF \A k \in 1..nd : i[k] < x.shape[k] THEN x.data[i] ELSE 0)

\* the sum of the values of a function with a finite domain
RECURSIVE SumFn(_)
SumFn(f) ==
    IF DOMAIN f = {} THEN 0
    ELSE LET j == CHOOSE j \in DOMAIN f : TRUE
         IN  f[j] + SumFn([k \in DOMAIN f \ {j} |-> f[k]])

\* np.fft.ifftn(X * Y, s = s, axes = axs): the circular convolution, along axs, of the
\* signals X and Y are the spectra of; other axes are matched position by position.
\* Only the nonzero samples of X contribute to the sums.
ifft_product(X, Y, axs) ==
    LET nd == Len(X.shape)
        T == AxisPositions(axs, nd)
        at(i, support) ==
            SumFn([j \in {j \in support : \A k \in (1..nd) \ T : j[k] = i[k]} |->
                      X.data[j] *
                      Y.data[[k \in 1..nd |->
                          IF k \in T THEN (i[k] - j[k]) % X.shape[k] ELSE i[k]]]])
    IN  With({j \in DOMAIN X.data : X.data[j] # 0},
             LAMBDA support : MkArray(X.shape, LAMBDA i : RatInt(at(i, support))))

\* elementwise operations
Map1(a, F(_)) == MkArray(a.shape, LAMBDA i : F(a.data[i]))
Map2(a, b, F(_, _)) == MkArray(a.shape, LAMBDA i : F(a.data[i], b.data[i]))

-----------------------------------------------------------------------------
(* mnxc, step by step *)

\* ModeValid that accepts every mode
AnyModeValid(m) == TRUE

\* line 59: mode in {'full', 'same'}
ModeValid(m) == m \in {"full", "same"}

\* np_array that returns its argument instead of a copy (np.asarray)
np_asarray(src, fresh) == src

\* np.array(x, dtype = ...): a new array object; the result is the object `fresh`
np_array(src, fresh) == fresh

\* lines 69-71: the axes on which the shape check finds a difference;
\* set(axes) holds the axis numbers as the caller wrote them
ShapeCheckFailures(fshape, mshape, axs) ==
    LET all_axes == 0..(Len(fshape) - 1)
    IN  {axis \in all_axes \ {axs[i] : i \in 1..Len(axs)} :
            fshape[axis + 1] # mshape[axis + 1]}

\* FinalShape without the "- 1"
FinalShapeOffByOne(fshape, mshape, axs) ==
    [k \in 1..Len(fshape) |->
        IF k \in AxisPositions(axs, Len(fshape))
        THEN fshape[k] + mshape[k] ELSE fshape[k]]

\* lines 78-81
FinalShape(fshape, mshape, axs) ==
    [k \in 1..Len(fshape) |->
        IF k \in AxisPositions(axs, Len(fshape))
        THEN fshape[k] + mshape[k] - 1 ELSE fshape[k]]

\* line 85
FastShape(final_shape, axs) ==
    [i \in 1..Len(axs) |-> next_fast_len(final_shape[Pos(axs[i], Len(final_shape))])]

\* MaskedZero that leaves the masked-out samples as they are
MaskedKeep(image, mask) == image

\* lines 94-95: image[np.logical_not(mask)] = 0.0
MaskedZero(image, mask) ==
    MkArray(image.shape, LAMBDA i : IF ~ mask.data[i] THEN 0 ELSE image.data[i])

\* AsNumbers that reads every mask entry as 1
AsOnes(mask) == Map1(mask, LAMBDA b : 1)

\* a boolean array read as numbers by the transform
AsNumbers(mask) == Map1(mask, LAMBDA b : IF b THEN 1 ELSE 0)

\* FinalSlice that keeps the last entries instead of the first
FinalSliceTail(arr, final_shape) ==
    Slice(arr, [k \in 1..Len(arr.shape) |-> arr.shape[k] - final_shape[k]],
               [k \in 1..Len(arr.shape) |-> arr.shape[k]])

\* arr[final_slice], final_slice = slice(0, sz) on every axis (lines 82, 131-133)
FinalSlice(arr, final_shape) ==
    LET b(k) == PySlice(0, final_shape[k], arr.shape[k])
    IN  Slice(arr, [k \in 1..Len(arr.shape) |-> b(k)[1]],
                   [k \in 1..Len(arr.shape) |-> b(k)[2]])

\* square roots are kept through their radicand
Sqrt(x) == [sqrt_of |-> x]

\* lines 97-105, 118, 123: the six forward transforms
Forward(fimg, fmask, mimg, mmask, lengths, axs) ==
    With([rotated_moving_image |-> _flip(mimg, Given(axs)),
          rotated_moving_mask |-> _flip(mmask, Given(axs))],
         LAMBDA r :
           [fixed_fft |-> fft(fimg, lengths, axs),
            rotated_moving_fft |-> fft(r.rotated_moving_image, lengths, axs),
            fixed_mask_fft |-> fft(AsNumbers(fmask), lengths, axs),
            rotated_moving_mask_fft |-> fft(AsNumbers(r.rotated_moving_mask), lengths, axs),
            fixed_squared_fft |-> fft(Map1(fimg, LAMBDA x : x * x), lengths, axs),
            rotated_moving_squared_fft |->
                fft(Map1(r.rotated_moving_image, LAMBDA x : x * x), lengths, axs)])

\* lines 109-115, 119, 124: the six inverse transforms (before the subtractions)
Inverse(f, axs) ==
    [number_overlap_masked_px |->
         Map1(ifft_product(f.rotated_moving_mask_fft, f.fixed_mask_fft, axs),
              LAMBDA x : DyFmaxEps(RatRound(x))),
     masked_correlated_fixed_fft |-> ifft_product(f.rotated_moving_mask_fft, f.fixed_fft, axs),
     masked_correlated_rotated_moving_fft |->
         ifft_product(f.fixed_mask_fft, f.rotated_moving_fft, axs),
     numerator |-> ifft_product(f.rotated_moving_fft, f.fixed_fft, axs),
     fixed_denom |-> ifft_product(f.rotated_moving_mask_fft, f.fixed_squared_fft, axs),
     moving_denom |-> ifft_product(f.fixed_mask_fft, f.rotated_moving_squared_fft, axs)]

\* lines 115-116
Numerator(v, i) ==
    RatSub(v.numerator.data[i],
           RatDivDy(RatMul(v.masked_correlated_fixed_fft.data[i],
                           v.masked_correlated_rotated_moving_fft.data[i]),
                    v.number_overlap_masked_px.data[i]))

\* lines 119-121
FixedDenom(v, i) ==
    RatFmax0(RatSub(v.fixed_denom.data[i],
                    RatDivDy(RatSquare(v.masked_correlated_fixed_fft.data[i]),
                             v.number_overlap_masked_px.data[i])))

\* MovingDenom reading the fixed image's sum of squares
MovingDenomSlip(v, i) ==
    RatFmax0(RatSub(v.fixed_denom.data[i],
                    RatDivDy(RatSquare(v.masked_correlated_rotated_moving_fft.data[i]),
                             v.number_overlap_masked_px.data[i])))

\* lines 124-126
MovingDenom(v, i) ==
    RatFmax0(RatSub(v.moving_denom.data[i],
                    RatDivDy(RatSquare(v.masked_correlated_rotated_moving_fft.data[i]),
                             v.number_overlap_masked_px.data[i])))

\* lines 87-92, 97-133: the three surfaces computed with transforms of lengths
\* `lengths` along `axs`, cut back to final_shape
SurfacesAt(fimg, fmask, mimg, mmask, axs, lengths) ==
    LET final_shape == FinalShape(fimg.shape, mimg.shape, axs)
    IN  With(Forward(fimg, fmask, mimg, mmask, lengths, axs), LAMBDA f :
        With(Inverse(f, axs), LAMBDA v :
          [numerator |->
               FinalSlice(MkArray(v.numerator.shape, LAMBDA i : Numerator(v, i)), final_shape),
           denom |->
               FinalSlice(MkArray(v.numerator.shape, LAMBDA i :
                              Sqrt(RatMul(FixedDenom(v, i), MovingDenom(v, i)))), final_shape),
           number_overlap_masked_px |->
               FinalSlice(v.number_overlap_masked_px, final_shape)]))

\* lines 75-92, 97-133: the three surfaces, with transforms of the fast lengths
Surfaces(fimg, fmask, mimg, mmask, axs) ==
    SurfacesAt(fimg, fmask, mimg, mmask, axs,
               FastShape(FinalShape(fimg.shape, mimg.shape, axs), axs))

\* lines 135-138
CropForMode(arr, m, fshape, axs) == IF m = "same" THEN _centered(arr, fshape, axs) ELSE arr

\* values of the returned array: sign * sqrt(q), or the result of a division by zero
Fin(sg, q) == [kind |-> "fin", s |-> sg, q |-> q]
NaN == [kind |-> "nan", s |-> 0, q |-> RatInt(0)]
Inf(sg) == [kind |-> "inf", s |-> sg, q |-> RatInt(0)]
Zero == Fin(0, RatInt(0))

\* x / d for a rational x and a square root d
Divide(x, d) ==
    IF d.sqrt_of.n = 0
    THEN (IF x.n = 0 THEN NaN ELSE Inf(Sign(x.n)))
    ELSE Fin(Sign(x.n), Rat(x.n * x.n * d.sqrt_of.d, x.d * x.d * d.sqrt_of.n))

\* np.clip(v, -1, 1)
Clip(v) ==
    IF v.kind = "nan" THEN v
    ELSE IF v.kind = "inf" \/ RatLt(RatInt(1), v.q) THEN Fin(v.s, RatInt(1))
    ELSE v

\* 1e3 * eps = 125 * 2^-(52 - 3)
TolMant == 125
TolExp == EpsExp - 3

\* GtTol with >= for >
GeTol(d, dmax) ==
    ~ Pow2Lt(d.sqrt_of.n * dmax.sqrt_of.d, 2 * TolExp,
             TolMant * TolMant * dmax.sqrt_of.n * d.sqrt_of.d)

\* line 142-143: d > 1e3 * eps * dmax, for square roots d and dmax, compared on the squares
GtTol(d, dmax) ==
    ~ Pow2Lt(d.sqrt_of.n * dmax.sqrt_of.d, 2 * TolExp,
             TolMant * TolMant * dmax.sqrt_of.n * d.sqrt_of.d + 1)

\* the largest of the square roots t[lo..hi]
RECURSIVE MaxSqrt(_, _, _)
MaxSqrt(t, lo, hi) ==
    IF lo = hi THEN t[lo]
    ELSE LET mid == (lo + hi) \div 2
             l == MaxSqrt(t, lo, mid)
             r == MaxSqrt(t, mid + 1, hi)
         IN  IF RatLt(l.sqrt_of, r.sqrt_of) THEN r ELSE l

\* np.max(np.abs(denom), axis = axes, keepdims = True) at the batch of i
MaxDenom(den, i, axs) ==
    LET last == Size(den.shape) - 1
        nd == Len(den.shape)
        T == AxisPositions(axs, nd)
        t == [n \in 0..last |->
                LET j == Unravel(n, den.shape)
                IN  IF \A k \in (1..nd) \ T : j[k] = i[k] THEN den.data[j] ELSE Sqrt(RatInt(0))]
    IN  MaxSqrt(t, 0, last)

\* NonzeroIndices without the tolerance test
AllIndices(den, axs) == Idx(den.shape)

\* lines 142-143
NonzeroIndices(den, axs) ==
    {i \in Idx(den.shape) : GtTol(den.data[i], MaxDenom(den, i, axs))}

\* lines 145-147
Quotient(num, den, axs) ==
    With(NonzeroIndices(den, axs), LAMBDA nonzero_indices :
        MkArray(den.shape, LAMBDA i :
            Clip(IF i \in nonzero_indices THEN Divide(num.data[i], den.data[i]) ELSE Zero)))

\* the largest of the counts t[lo..hi]
RECURSIVE MaxDy(_, _, _)
MaxDy(t, lo, hi) ==
    IF lo = hi THEN t[lo]
    ELSE LET mid == (lo + hi) \div 2
             l == MaxDy(t, lo, mid)
             r == MaxDy(t, mid + 1, hi)
         IN  IF DyLt(l, r) THEN r ELSE l

\* np.max(number_overlap_masked_px, axis = axes, keepdims = True) at the batch of i
\* (every count is at least eps)
MaxOverlap(cnt, i, axs) ==
    LET last == Size(cnt.shape) - 1
        nd == Len(cnt.shape)
        T == AxisPositions(axs, nd)
        t == [n \in 0..last |->
                LET j == Unravel(n, cnt.shape)
                IN  IF \A k \in (1..nd) \ T : j[k] = i[k] THEN cnt.data[j] ELSE eps]
    IN  MaxDy(t, 0, last)

\* line 151-152: the offsets with number_overlap_masked_px < overlap_ratio * max
BelowThreshold(cnt, ratio, axs) ==
    {i \in Idx(cnt.shape) :
        DyScaledLt(cnt.data[i], ratio.d, MaxOverlap(cnt, i, axs), ratio.n)}

\* ApplyOverlapThreshold that suppresses nothing
NoOverlapThreshold(o, cnt, ratio, axs) == o

\* lines 149-152
ApplyOverlapThreshold(o, cnt, ratio, axs) ==
    With(BelowThreshold(cnt, ratio, axs), LAMBDA below :
        MkArray(o.shape, LAMBDA i : IF i \in below THEN Zero ELSE o.data[i]))

\* the whole call on valid arguments: what mnxc returns
mnxc(a1, a2, k1, k2, m, axs, ratio) ==
    With(Surfaces(MaskedZero(a1, k1), k1, MaskedZero(a2, k2), k2, axs), LAMBDA sf :
    With([num |-> CropForMode(sf.numerator, m, a1.shape, axs),
          den |-> CropForMode(sf.denom, m, a1.shape, axs),
          cnt |-> CropForMode(sf.number_overlap_masked_px, m, a1.shape, axs)], LAMBDA c :
    With(Quotient(c.num, c.den, axs), LAMBDA q :
        ApplyOverlapThreshold(q, c.cnt, ratio, axs))))

-----------------------------------------------------------------------------
(* Inputs *)

MaxPixels == 3          \* the two small images hold at most this many pixels together
RowLen == 3             \* length of the row images
PixelValues == {0, 1}
Modes == {"full", "same", "valid"}
AxesChoices == {<<0, 1>>, <<-2, -1>>, <<1>>}
Ratios == {Rat(3, 10), Rat(1, 1)}
ExampleShape == <<4, 4>>
ExampleValues == {10}

Shapes == {sh \in (1..MaxPixels) \X (1..MaxPixels) : Size(sh) <= MaxPixels}
ArraysOf(sh, V) == {[shape |-> sh, data |-> d] : d \in [Idx(sh) -> V]}
Full(sh, v) == MkArray(sh, LAMBDA i : v)

\* the arguments of a call: small arbitrary images and masks; arbitrary two-pixel
\* images and masks of one shape; rows with a fully valid fixed image and a moving
\* image that is fully valid or masked at its first sample; and the constant square
\* images of the example scenario
SmallCalls ==
    {[arr1 |-> c[1], arr2 |-> c[2], m1 |-> c[3], m2 |-> c[4]] :
        c \in UNION {
            ArraysOf(p[1], PixelValues) \X ArraysOf(p[2], PixelValues) \X
            ArraysOf(p[1], BOOLEAN) \X ArraysOf(p[2], BOOLEAN) :
            p \in {q \in Shapes \X Shapes : Size(q[1]) + Size(q[2]) <= MaxPixels}}}
PairShapes == {<<1, 2>>, <<2, 1>>}
PairCalls ==
    {[arr1 |-> c[1], arr2 |-> c[2], m1 |-> c[3], m2 |-> c[4]] :
        c \in UNION {
            ArraysOf(sh, PixelValues) \X ArraysOf(sh, PixelValues) \X
            ArraysOf(sh, BOOLEAN) \X ArraysOf(sh, BOOLEAN) : sh \in PairShapes}}
RowMasks ==
    {Full(<<1, RowLen>>, TRUE), MkArray(<<1, RowLen>>, LAMBDA i : i[2] # 0)}
RowCalls ==
    {[arr1 |-> c[1], arr2 |-> c[2], m1 |-> Full(<<1, RowLen>>, TRUE), m2 |-> c[3]] :
        c \in ArraysOf(<<1, RowLen>>, PixelValues) \X ArraysOf(<<1, RowLen>>, PixelValues)
               \X RowMasks}
ExampleCalls ==
    {[arr1 |-> Full(ExampleShape, v), arr2 |-> Full(ExampleShape, v),
      m1 |-> Full(ExampleShape, TRUE), m2 |-> Full(ExampleShape, TRUE)] :
        v \in ExampleValues}

FlipAxes == {AxesNone, Given(<<0>>), Given(<<1>>), Given(<<0, 1>>), Given(<<-1>>),
             Given(<<-2, -1>>), Given(<<0, 0>>), Given(<<>>)}
FlipShapes == {<<1, 2>>, <<2, 1>>, <<2, 2>>, <<1, 3>>}
FlipValues == {0, 1, 2}

NoLocals ==
    /\ fixed_image = None /\ fixed_mask = None
    /\ moving_image = None /\ moving_mask = None
    /\ numerator = NoArray /\ denom = NoArray /\ number_overlap_masked_px = NoArray
    /\ out = NoArray
    /\ transforms = 0
    /\ raised = "none"

CenteredIdle ==
    cen_arr = NoArray /\ cen_newshape = <<>> /\ cen_axes = <<>> /\ cen_out = NoArray

WarnIdle ==
    /\ matching = <<>> /\ matching_is_str = FALSE /\ environ = "unset"
    /\ strict_warnings = FALSE /\ w = <<>> /\ remaining = <<>> /\ warn_raised = "none"

SegIdle ==
    /\ image_shape = <<>> /\ return_all = FALSE
    /\ list_of_vertex_lists = <<>> /\ polygons_drawn = <<>>
    /\ temp_list = <<>> /\ preview_polygon_drawn = <<>>
    /\ collections = <<>> /\ labels = NoArray /\ seg_raised = "none"

OtherIdle == other_arr1 = NoArray /\ other_arr2 = NoArray /\ other_out = NoArray

NoSurfaces == [numerator |-> NoArray, denom |-> NoArray, number_overlap_masked_px |-> NoArray]
PadIdle == fast_shape = <<>> /\ exact_surfaces = NoSurfaces

HarnessIdle == CenteredIdle /\ WarnIdle /\ SegIdle /\ OtherIdle /\ PadIdle

InitCall ==
    /\ \E c \in SmallCalls \cup PairCalls \cup RowCalls \cup ExampleCalls :
          heap = [o \in ObjIds |->
                     IF o = "arr1" THEN c.arr1 ELSE IF o = "arr2" THEN c.arr2
                     ELSE IF o = "m1" THEN c.m1 ELSE IF o = "m2" THEN c.m2 ELSE NoArray]
    /\ mode \in Modes
    /\ axes \in AxesChoices
    /\ overlap_ratio \in Ratios
    /\ NoLocals
    /\ pc = "start"
    /\ flip_arr = NoArray /\ flip_axes = AxesNone /\ flip_out = NoArray
    /\ HarnessIdle

InitFlip ==
    /\ heap = [o \in ObjIds |-> NoArray]
    /\ mode = "full" /\ axes = <<>> /\ overlap_ratio = Rat(3, 10)
    /\ NoLocals
    /\ pc = "flip_call"
    /\ \E sh \in FlipShapes : flip_arr \in ArraysOf(sh, FlipValues)
    /\ flip_axes \in FlipAxes
    /\ flip_out = NoArray
    /\ HarnessIdle

Init == InitCall \/ InitFlip

-----------------------------------------------------------------------------
(* Actions *)

args == <<mode, axes, overlap_ratio>>
locals == <<fixed_image, fixed_mask, moving_image, moving_mask>>
surfaces == <<numerator, denom, number_overlap_masked_px>>
flipvars == <<flip_arr, flip_axes, flip_out>>

\* lines 59-60: the mode check fails
RaiseMode ==
    /\ pc = "start"
    /\ ~ ModeValid(mode)
    /\ raised' = "ValueError: mode"
    /\ pc' = "raised"
    /\ UNCHANGED <<heap, args, locals, surfaces, out, transforms, flipvars, harness>>

\* lines 59-73: the mode check passes, the arguments are converted to call-local
\* arrays, and the shapes are checked
Enter ==
    /\ pc = "start"
    /\ ModeValid(mode)
    /\ fixed_image' = np_array("arr1", "fixed_image")
    /\ fixed_mask' = np_array("m1", "fixed_mask")
    /\ moving_image' = np_array("arr2", "moving_image")
    /\ moving_mask' = np_array("m2", "moving_mask")
    /\ heap' = [o \in ObjIds |->
                   IF o = fixed_image' THEN heap["arr1"]
                   ELSE IF o = fixed_mask' THEN heap["m1"]
                   ELSE IF o = moving_image' THEN heap["arr2"]
                   ELSE IF o = moving_mask' THEN heap["m2"]
                   ELSE heap[o]]
    /\ IF ShapeCheckFailures(heap["arr1"].shape, heap["arr2"].shape, axes) # {}
       THEN raised' = "ValueError: shape" /\ pc' = "raised"
       ELSE raised' = raised /\ pc' = "entered"
    /\ UNCHANGED <<args, surfaces, out, transforms, flipvars, harness>>

\* lines 75-138: the masked-out samples are zeroed in the local images; six forward
\* and six inverse transforms; the crop to final_shape and, in 'same' mode, the
\* centre crop
Correlate ==
    /\ pc = "entered"
    /\ \E fimg \in {MaskedZero(heap[fixed_image], heap[fixed_mask])},
          mimg \in {MaskedZero(heap[moving_image], heap[moving_mask])} :
          /\ heap' = [o \in ObjIds |-> IF o = fixed_image THEN fimg
                                       ELSE IF o = moving_image THEN mimg
                                       ELSE heap[o]]
          /\ \E sf \in {Surfaces(fimg, heap[fixed_mask], mimg, heap[moving_mask], axes)} :
                /\ numerator' = CropForMode(sf.numerator, mode, fimg.shape, axes)
                /\ denom' = CropForMode(sf.denom, mode, fimg.shape, axes)
                /\ number_overlap_masked_px' =
                       CropForMode(sf.number_overlap_masked_px, mode, fimg.shape, axes)
    /\ transforms' = transforms + 12
    /\ pc' = "correlated"
    /\ UNCHANGED <<args, locals, out, raised, flipvars, harness>>

\* lines 140-154
Normalize ==
    /\ pc = "correlated"
    /\ \E q \in {Quotient(numerator, denom, axes)} :
          out' = ApplyOverlapThreshold(q, number_overlap_masked_px, overlap_ratio, axes)
    /\ pc' = "done"
    /\ UNCHANGED <<heap, args, locals, surfaces, transforms, raised, flipvars, harness>>

\* a direct call of _flip
FlipCall ==
    /\ pc = "flip_call"
    /\ flip_out' = _flip(flip_arr, flip_axes)
    /\ pc' = "flip_done"
    /\ UNCHANGED <<heap, args, locals, surfaces, out, transforms, raised,
                   flip_arr, flip_axes, harness>>

Next == RaiseMode \/ Enter \/ Correlate \/ Normalize \/ FlipCall

Spec == Init /\ [][Next]_vars

-----------------------------------------------------------------------------
(* Properties *)

InCall == pc \in {"start", "entered", "correlated", "done", "raised"}
Returned == pc = "done"
FixedShape == heap["arr1"].shape
MovingShape == heap["arr2"].shape
Rank == Len(FixedShape)

\* position k is a transform axis: some entry of axes names it, counting from the
\* front or from the back
IsTransformAxis(k) ==
    \E n \in 1..Len(axes) : axes[n] = k - 1 \/ axes[n] = k - 1 - Rank

\* j lies in the batch of i
SameBatch(i, j) == \A k \in 1..Rank : IsTransformAxis(k) \/ i[k] = j[k]

InRange(v) == v.kind = "fin" /\ ~ RatLt(RatInt(1), v.q)

\* C1: the returned array has extent size_fixed + size_moving - 1 ('full') or
\* size_fixed ('same') along every transform axis, and the common input size along
\* every other axis.
C1_ShapeLaw ==
    Returned =>
        /\ Len(out.shape) = Rank
        /\ DOMAIN out.data = Idx(out.shape)
        /\ \A k \in 1..Rank :
              IF IsTransformAxis(k)
              THEN out.shape[k] = IF mode = "full"
                                  THEN FixedShape[k] + MovingShape[k] - 1
                                  ELSE FixedShape[k]
              ELSE out.shape[k] = FixedShape[k] /\ out.shape[k] = MovingShape[k]

\* a 'same' call that returned, with a non-transform axis and a moving image longer
\* than one sample along the transform axis
C1_Witness ==
    /\ Returned /\ mode = "same"
    /\ \E k \in 1..Rank : ~ IsTransformAxis(k)
    /\ \E k \in 1..Rank : IsTransformAxis(k) /\ MovingShape[k] > 1
                          /\ out.shape[k] # FixedShape[k] + MovingShape[k] - 1

\* C2: every returned value is a number in [-1, 1]: never NaN, never infinite, also
\* where the denominator or the overlap count is zero.
C2_RangeLaw ==
    Returned => \A i \in DOMAIN out.data : InRange(out.data[i])

\* a returned surface with an offset of no overlap, an offset of zero denominator
\* under positive overlap, and a nonzero value
C2_Witness ==
    /\ Returned
    /\ \E i \in DOMAIN out.data : number_overlap_masked_px.data[i] = eps
    /\ \E i \in DOMAIN out.data : /\ number_overlap_masked_px.data[i] # eps
                                  /\ denom.data[i] = Sqrt(RatInt(0))
    /\ \E i \in DOMAIN out.data : out.data[i] # Zero

C4_ErrorLaw ==
    InCall =>
        /\ (~ (mode \in {"full", "same"}) /\ pc # "start") => pc = "raised"
        /\ ((\E k \in 1..Rank : ~ IsTransformAxis(k) /\ FixedShape[k] # MovingShape[k])
              /\ pc # "start") => pc = "raised"
        /\ pc = "raised" =>
              /\ raised # "none"
              /\ transforms = 0
              /\ out = NoArray
              /\ numerator = NoArray /\ denom = NoArray
              /\ number_overlap_masked_px = NoArray
        /\ pc = "done" => raised = "none" /\ transforms > 0

\* the shape error raised for a difference along a non-transform axis
C4_Witness ==
    /\ pc = "raised" /\ raised = "ValueError: shape"
    /\ \E k \in 1..Rank : ~ IsTransformAxis(k) /\ FixedShape[k] # MovingShape[k]

\* C5: the shape check constrains only the non-transform axes: a shape error means
\* the sizes differ along some non-transform axis, however the axes are named.
C5_ShapeCheckOnlyOffAxes ==
    (pc = "raised" /\ raised = "ValueError: shape") =>
        \E k \in 1..Rank : ~ IsTransformAxis(k) /\ FixedShape[k] # MovingShape[k]

\* C6: the caller's arr1, arr2, m1 and m2 are never changed by the call, whether it
\* returns or raises.
C6_FrameLaw ==
    [][InCall => /\ heap'["arr1"] = heap["arr1"] /\ heap'["arr2"] = heap["arr2"]
                 /\ heap'["m1"] = heap["m1"] /\ heap'["m2"] = heap["m2"]]_vars

\* the zeroing of masked-out samples has changed the local copy of both images
C6_Witness ==
    /\ pc \in {"correlated", "done"}
    /\ heap[fixed_image] # heap["arr1"]
    /\ heap[moving_image] # heap["arr2"]

IsExample ==
    /\ InCall
    /\ heap["arr1"] = Full(<<4, 4>>, 10) /\ heap["arr2"] = Full(<<4, 4>>, 10)
    /\ heap["m1"] = Full(<<4, 4>>, TRUE) /\ heap["m2"] = Full(<<4, 4>>, TRUE)
    /\ mode = "full" /\ axes = <<0, 1>> /\ overlap_ratio = Rat(3, 10)

\* C7 as stated: the example scenario returns a 7 x 7 array with the value 1.0 at the
\* centre offset (3, 3) and every value a number in [-1, 1].
C7_ExamplePeak ==
    (IsExample /\ Returned) =>
        /\ out.shape = <<7, 7>>
        /\ out.data[<<3, 3>>] = Fin(1, RatInt(1))
        /\ \A i \in DOMAIN out.data : InRange(out.data[i])

\* C7 as amended: the example scenario returns a 7 x 7 array; numerator and
\* denominator are 0 at every offset (a constant image has no variance), so every
\* value, the centre included, is 0 in exact arithmetic.
C7_ExampleZero ==
    (IsExample /\ Returned) =>
        /\ out.shape = <<7, 7>>
        /\ \A i \in DOMAIN out.data :
              /\ numerator.data[i] = RatInt(0)
              /\ denom.data[i] = Sqrt(RatInt(0))
              /\ out.data[i] = Zero

\* the example scenario has returned; all 16 samples overlap at the centre offset
C7_Witness ==
    /\ IsExample /\ Returned
    /\ number_overlap_masked_px.data[<<3, 3>>] = Dy(16, 0)

\* no index holds a true entry in both masks
PositionDisjoint ==
    \A i \in DOMAIN heap["m1"].data \cap DOMAIN heap["m2"].data :
        ~ (heap["m1"].data[i] /\ heap["m2"].data[i])

\* no valid sample of the fixed image and valid sample of the moving image lie in
\* the same batch: no relative shift along the transform axes makes two valid
\* samples meet
NoCoValidPair ==
    \A i \in DOMAIN heap["m1"].data, j \in DOMAIN heap["m2"].data :
        (heap["m1"].data[i] /\ heap["m2"].data[j]) => ~ SameBatch(i, j)

\* C8 as stated: masks with no index valid in both give the epsilon floor as overlap
\* count at every offset and an all-zero result.
C8_DisjointMasks ==
    (Returned /\ PositionDisjoint) =>
        \A i \in DOMAIN out.data :
            number_overlap_masked_px.data[i] = eps /\ out.data[i] = Zero

\* C8 as amended: masks with no co-valid pair at any relative shift give the epsilon
\* floor as overlap count at every offset and an all-zero result.
C8_NoCoValidPair ==
    (Returned /\ NoCoValidPair) =>
        \A i \in DOMAIN out.data :
            number_overlap_masked_px.data[i] = eps /\ out.data[i] = Zero

\* such a call has returned, both masks have valid samples and the valid samples
\* are not all zero
C8_Witness ==
    /\ Returned /\ NoCoValidPair
    /\ \E i \in DOMAIN heap["m1"].data : heap["m1"].data[i] /\ heap["arr1"].data[i] # 0
    /\ \E j \in DOMAIN heap["m2"].data : heap["m2"].data[j] /\ heap["arr2"].data[j] # 0

\* C9: in 'full' mode the result equals the result of the call with the two operands
\* exchanged, reversed along the transform axes.
C9_SwapLaw ==
    (Returned /\ mode = "full") =>
        out = _flip(mnxc(heap["arr2"], heap["arr1"], heap["m2"], heap["m1"],
                         mode, axes, overlap_ratio),
                    Given(axes))

\* a 'full' result that is not its own mirror image, from two different operands
C9_Witness ==
    /\ Returned /\ mode = "full"
    /\ heap["arr1"] # heap["arr2"]
    /\ out # _flip(out, Given(axes))

\* position k of an array of rank nd is named by the optional axes a
Listed(a, k, nd) ==
    ~ a.given \/ \E n \in 1..Len(a.axes) : a.axes[n] = k - 1 \/ a.axes[n] = k - 1 - nd

\* index i mirrored along the listed axes
Mirror(i, a, shape) ==
    [k \in 1..Len(shape) |-> IF Listed(a, k, Len(shape)) THEN shape[k] - 1 - i[k] ELSE i[k]]

FlipResult ==
    pc = "flip_done" =>
        /\ flip_out.shape = flip_arr.shape
        /\ DOMAIN flip_out.data = DOMAIN flip_arr.data
        /\ \A i \in DOMAIN flip_arr.data :
              flip_out.data[i] = flip_arr.data[Mirror(i, flip_axes, flip_arr.shape)]
        /\ _flip(flip_out, flip_axes) = flip_arr

\* C10: _flip returns an array of the same shape, reversed along exactly the listed
\* axes (all axes when axes is None); flipping twice gives the argument back; the
\* argument is not modified.
C10_FlipLaw == [] FlipResult /\ [][flip_arr' = flip_arr]_vars

\* a 2 x 2 array flipped along its last axis only, with a result that differs from it
C10_Witness ==
    /\ pc = "flip_done"
    /\ flip_axes = Given(<<1>>)
    /\ flip_arr.shape = <<2, 2>>
    /\ flip_out # flip_arr
    /\ flip_out.data[<<0, 0>>] # flip_arr.data[<<1, 1>>]

-----------------------------------------------------------------------------
(* Direct calls of _centered *)

CallIdle ==
    /\ heap = [o \in ObjIds |-> NoArray]
    /\ mode = "full" /\ axes = <<>> /\ overlap_ratio = Rat(3, 10)
    /\ NoLocals
FlipIdle == flip_arr = NoArray /\ flip_axes = AxesNone /\ flip_out = NoArray

MaxTarget == 3          \* largest target size along an axis
CenShapes == {<<1, 3>>, <<2, 3>>, <<1, 4>>, <<3, 1>>}
CenValues == {0, 1}
CenAxes == {<<0>>, <<1>>, <<0, 1>>, <<-1>>, <<-2, -1>>, <<1, 1>>, <<>>}

InitCentered ==
    /\ CallIdle /\ FlipIdle /\ WarnIdle /\ SegIdle /\ OtherIdle /\ PadIdle
    /\ pc = "centered_call"
    /\ \E sh \in CenShapes : cen_arr \in ArraysOf(sh, CenValues)
    /\ cen_newshape \in (0..MaxTarget) \X (0..MaxTarget)
    /\ cen_axes \in CenAxes
    /\ cen_out = NoArray

\* a direct call of _centered
CenteredCall ==
    /\ pc = "centered_call"
    /\ cen_out' = _centered(cen_arr, cen_newshape, cen_axes)
    /\ pc' = "centered_done"
    /\ UNCHANGED <<heap, args, locals, surfaces, out, transforms, raised, flipvars,
                   cen_arr, cen_newshape, cen_axes, warnvars, segvars, othercall, padvars>>

NextCentered == CenteredCall

SpecCentered == InitCentered /\ [][NextCentered]_vars

\* axis position k is named by cen_axes
CenListed(k) == k \in AxisPositions(cen_axes, Len(cen_arr.shape))
\* d = current size - target size on axis position k
CenDiff(k) == cen_arr.shape[k] - cen_newshape[k]
\* the named axes the claim speaks of
CenCovered == {k \in 1..Len(cen_arr.shape) : CenListed(k) /\ CenDiff(k) >= 0}
\* the named axes with a target larger than the array
CenOversized == {k \in 1..Len(cen_arr.shape) : CenListed(k) /\ CenDiff(k) < 0}

\* the indices of the arrays
CenStarts == UNION {0..sh[k] : sh \in CenShapes, k \in {1, 2}}

\* C11: after _centered(arr, newshape, axes) returns, every axis named in axes with
\* d = current - target >= 0 has exactly target elements and they are the contiguous
\* range of arr starting at floor(d / 2), for even and for odd d; every axis not named
\* has its full extent, starting at 0.
C11_CenteredLaw ==
    pc = "centered_done" =>
        LET nd == Len(cen_arr.shape)
        IN  /\ Len(cen_out.shape) = nd
            /\ \A k \in CenCovered : cen_out.shape[k] = cen_newshape[k]
            /\ \A k \in (1..nd) \ (CenCovered \cup CenOversized) :
                   cen_out.shape[k] = cen_arr.shape[k]
            /\ \E start \in [1..nd -> CenStarts] :
                   /\ \A k \in CenCovered : start[k] = CenDiff(k) \div 2
                   /\ \A k \in (1..nd) \ (CenCovered \cup CenOversized) : start[k] = 0
                   /\ \A i \in Idx(cen_out.shape) :
                          /\ [k \in 1..nd |-> i[k] + start[k]] \in Idx(cen_arr.shape)
                          /\ cen_out.data[i] = cen_arr.data[[k \in 1..nd |-> i[k] + start[k]]]

\* a call that crops one axis by an odd difference and another by an even nonzero
\* difference or not at all, on an array whose crop differs from its other crops
C11_Witness ==
    /\ pc = "centered_done"
    /\ \E k \in CenCovered : CenDiff(k) % 2 = 1 /\ cen_newshape[k] > 0
    /\ \E k \in 1..Len(cen_arr.shape) : ~ CenListed(k) /\ cen_arr.shape[k] > cen_newshape[k]
    /\ \E i \in Idx(cen_out.shape) :
           cen_out.data[i] # cen_arr.data[i]

-----------------------------------------------------------------------------
(* expected_warnings (skimage/_shared/_warnings.py)                          *)
(*                                                                           *)
(* A pattern is the tuple of its alternatives, m.split('|'); an alternative  *)
(* is a letter, found by re.search in every message that holds the letter,   *)
(* or \A\Z, found in the empty message only.  A message is the tuple of its  *)
(* letters.  The empty tuple of alternatives stands for a None entry of      *)
(* `matching` (split never returns an empty list).                           *)

AZ == "\\A\\Z"
NonePattern == <<>>

\* re.search(alternative, message) is not None
AltFound(alt, message) ==
    IF alt = AZ THEN message = <<>>
    ELSE \E k \in 1..Len(message) : message[k] = alt

\* re.search(match, str(warn.message)) is not None
re_search(match, message) == \E a \in 1..Len(match) : AltFound(match[a], message)

\* no pattern counts as optional
NeverOptional(m) == FALSE

\* r'\A\Z' in m.split('|')
IsOptional(m) == \E a \in 1..Len(m) : m[a] = AZ

\* lines 125-126: while None in matching: matching.remove(None)
RECURSIVE WithoutNone(_)
WithoutNone(ms) ==
    IF ms = <<>> THEN <<>>
    ELSE IF Head(ms) = NonePattern THEN WithoutNone(Tail(ms))
    ELSE <<Head(ms)>> \o WithoutNone(Tail(ms))

\* line 127: [m for m in matching if r'\A\Z' not in m.split('|')]
RECURSIVE Remaining(_)
Remaining(ms) ==
    IF ms = <<>> THEN <<>>
    ELSE IF IsOptional(Head(ms)) THEN Remaining(Tail(ms))
    ELSE <<Head(ms)>> \o Remaining(Tail(ms))

\* list.remove(x): drop the first occurrence of x
RECURSIVE ListRemove(_, _)
ListRemove(seq, x) ==
    IF seq = <<>> THEN <<>>
    ELSE IF Head(seq) = x THEN Tail(seq)
    ELSE <<Head(seq)>> \o ListRemove(Tail(seq), x)

ListHas(seq, x) == \E k \in 1..Len(seq) : seq[k] = x

\* lines 130-134: the inner loop over `matching` for one warning
RECURSIVE MatchLoop(_, _, _, _)
MatchLoop(ms, message, found, rem) ==
    IF ms = <<>> THEN [found |-> found, remaining |-> rem]
    ELSE IF re_search(Head(ms), message)
         THEN MatchLoop(Tail(ms), message, TRUE,
                        IF ListHas(rem, Head(ms)) THEN ListRemove(rem, Head(ms)) ELSE rem)
         ELSE MatchLoop(Tail(ms), message, found, rem)

\* lines 128-136: the loop over the recorded warnings; stops at the first raise
RECURSIVE WarnLoop(_, _, _, _)
WarnLoop(ws, ms, strict, rem) ==
    IF ws = <<>> THEN [raised |-> "none", remaining |-> rem]
    ELSE LET r == MatchLoop(ms, Head(ws), FALSE, rem)
         IN  IF strict /\ ~ r.found
             THEN [raised |-> "ValueError: Unexpected warning", remaining |-> r.remaining]
             ELSE WarnLoop(Tail(ws), ms, strict, r.remaining)

\* lines 112-118
Lower(v) == IF v \in {"true", "True"} THEN "true"
            ELSE IF v \in {"false", "False"} THEN "false" ELSE v
StrictOf(env) ==
    LET v == IF env = "unset" THEN "1" ELSE env
    IN  IF Lower(v) = "true" THEN TRUE
        ELSE IF Lower(v) = "false" THEN FALSE
        ELSE v # "0"

MaxPatterns == 2        \* longest `matching`
MaxWarnings == 2        \* most warnings recorded inside the context
Letters == {"a", "b"}
Messages == {<<>>, <<"a">>, <<"c">>, <<"a", "b">>}
Patterns == {<<"a">>, <<"b">>, <<"a", "b">>, <<"a", AZ>>, <<"b", AZ>>, <<AZ>>}
EnvValues == {"unset", "0", "True", "false"}

SeqsUpTo(S, n) == UNION {[1..k -> S] : k \in 0..n}

InitWarn ==
    /\ CallIdle /\ FlipIdle /\ CenteredIdle /\ SegIdle /\ OtherIdle /\ PadIdle
    /\ pc = "warn_call"
    /\ \/ matching \in SeqsUpTo(Patterns \cup {NonePattern}, MaxPatterns)
          /\ matching_is_str = FALSE
       \/ matching \in Patterns /\ matching_is_str = TRUE
    /\ environ \in EnvValues
    /\ strict_warnings = FALSE /\ w = <<>> /\ remaining = <<>> /\ warn_raised = "none"

callvars == <<heap, args, locals, surfaces, out, transforms, raised, flipvars>>

\* lines 108-110: `matching` is a string
RaiseStr ==
    /\ pc = "warn_call"
    /\ matching_is_str
    /\ warn_raised' = "ValueError: matching should be a list"
    /\ pc' = "warn_raised"
    /\ UNCHANGED <<callvars, centeredvars, segvars, othercall, padvars, matching, matching_is_str, environ,
                   strict_warnings, w, remaining>>

\* lines 108-122: up to the yield
EnterContext ==
    /\ pc = "warn_call"
    /\ ~ matching_is_str
    /\ strict_warnings' = StrictOf(environ)
    /\ w' = <<>>
    /\ pc' = "warn_body"
    /\ UNCHANGED <<callvars, centeredvars, segvars, othercall, padvars, matching, matching_is_str, environ,
                   remaining, warn_raised>>

\* the body of the with statement issues a warning; all_warnings records it
Warn ==
    /\ pc = "warn_body"
    /\ Len(w) < MaxWarnings
    /\ \E message \in Messages : w' = Append(w, message)
    /\ UNCHANGED <<callvars, centeredvars, segvars, othercall, padvars, matching, matching_is_str, environ,
                   strict_warnings, remaining, warn_raised, pc>>

\* the body raises: the exception is thrown into the generator at the yield and
\* leaves it; lines 123-139 do not run
BodyRaises ==
    /\ pc = "warn_body"
    /\ warn_raised' = "body exception"
    /\ pc' = "warn_raised"
    /\ UNCHANGED <<callvars, centeredvars, segvars, othercall, padvars, matching, matching_is_str, environ,
                   strict_warnings, w, remaining>>

\* lines 123-139: the body ends normally and the recorded warnings are checked
ExitContext ==
    /\ pc = "warn_body"
    /\ matching' = WithoutNone(matching)
    /\ \E r \in {WarnLoop(w, matching', strict_warnings, Remaining(matching'))} :
          /\ remaining' = r.remaining
          /\ IF r.raised # "none"
             THEN warn_raised' = r.raised /\ pc' = "warn_raised"
             ELSE IF strict_warnings /\ Len(r.remaining) > 0
             THEN warn_raised' = "ValueError: No warning raised matching" /\ pc' = "warn_raised"
             ELSE warn_raised' = "none" /\ pc' = "warn_exited"
    /\ UNCHANGED <<callvars, centeredvars, segvars, othercall, padvars, matching_is_str, environ, strict_warnings, w>>

NextWarn == RaiseStr \/ EnterContext \/ Warn \/ BodyRaises \/ ExitContext

SpecWarn == InitWarn /\ [][NextWarn]_vars

\* the context was left by its own check (normally or with that check's ValueError)
WarnChecked ==
    \/ pc = "warn_exited"
    \/ pc = "warn_raised" /\ warn_raised \in {"ValueError: Unexpected warning",
                                                "ValueError: No warning raised matching"}
\* some recorded warning matches none of the patterns
SomeUnexpected ==
    \E i \in 1..Len(w) : \A k \in 1..Len(matching) : ~ re_search(matching[k], w[i])
\* the pattern has an \A\Z alternative
HasEmptyAlternative(m) == \E a \in 1..Len(m) : m[a] = AZ
\* some pattern without an \A\Z alternative was matched by no recorded warning
SomeUnmatched ==
    \E k \in 1..Len(matching) :
        /\ ~ HasEmptyAlternative(matching[k])
        /\ \A i \in 1..Len(w) : ~ re_search(matching[k], w[i])

\* C12: with strict checking on, when the body of the context ends normally a
\* ValueError is raised if and only if some recorded warning matches no pattern or
\* some pattern without an \A\Z alternative was matched by no recorded warning; a
\* pattern with an \A\Z alternative is never among those reported as not raised.
C12_StrictLaw ==
    (WarnChecked /\ strict_warnings) =>
        /\ (pc = "warn_raised") <=> (SomeUnexpected \/ SomeUnmatched)
        /\ \A k \in 1..Len(remaining) : ~ HasEmptyAlternative(remaining[k])
        /\ warn_raised = "ValueError: No warning raised matching" =>
               (SomeUnmatched /\ ~ SomeUnexpected)

\* a normal exit without error although an optional pattern matched nothing, next to
\* a required pattern that a recorded warning matched
C12_Witness ==
    /\ pc = "warn_exited" /\ strict_warnings
    /\ Len(w) > 0
    /\ \E k \in 1..Len(matching) :
           /\ HasEmptyAlternative(matching[k])
           /\ \A i \in 1..Len(w) : ~ re_search(matching[k], w[i])
    /\ \E k \in 1..Len(matching) : ~ HasEmptyAlternative(matching[k])

-----------------------------------------------------------------------------
(* manual_polygon_segmentation (skimage/future/manual_segmentation.py)       *)
(*                                                                           *)
(* A vertex is <<x, y>>.  An artist on the axes is [vertices, alpha]: what   *)
(* _draw_polygon was called with.  The handlers run one at a time, from the  *)
(* GUI event loop started by plt.show.                                       *)

LEFT_CLICK == 1
RIGHT_CLICK == 3

\* list.pop() that leaves the list as it is
PopNothing(list) == list

\* the list after list.pop()
Pop(list) == SubSeq(list, 1, Len(list) - 1)
\* what list.pop() returns
Last(list) == list[Len(list)]

SetMin(S) == CHOOSE x \in S : \A y \in S : x <= y
SetMax(S) == CHOOSE x \in S : \A y \in S : y <= x

\* skimage.draw.polygon(pr, pc, shape) is outside these sources; it stands here for
\* the pixels of `shape` within the extent of the vertices
polygon(pr, pc_, shape) ==
    IF pr = <<>> THEN {}
    ELSE {i \in Idx(shape) :
            /\ SetMin({pr[k] : k \in 1..Len(pr)}) <= i[1]
            /\ i[1] <= SetMax({pr[k] : k \in 1..Len(pr)})
            /\ SetMin({pc_[k] : k \in 1..Len(pc_)}) <= i[2]
            /\ i[2] <= SetMax({pc_[k] : k \in 1..Len(pc_)})}

\* lines 14-20
_mask_from_vertices(vertices, shape, label) ==
    LET pr == [k \in 1..Len(vertices) |-> vertices[k][2]]
        pc_ == [k \in 1..Len(vertices) |-> vertices[k][1]]
    IN  MkArray(shape, LAMBDA i : IF i \in polygon(pr, pc_, shape) THEN label ELSE 0)

\* lines 23-28: the artist _draw_polygon adds to the axes and returns
_draw_polygon(vertices, alpha) == [vertices |-> vertices, alpha |-> alpha]

\* enumerate counting from 0 whatever `start` is
EnumerateFromZero(seq, start) == [k \in 1..Len(seq) |-> <<k - 1, seq[k]>>]

\* enumerate(seq, start)
enumerate(seq, start) == [k \in 1..Len(seq) |-> <<start + k - 1, seq[k]>>]

np_maximum(a, b) == MkArray(a.shape, LAMBDA i : IF a.data[i] < b.data[i] THEN b.data[i] ELSE a.data[i])

\* reduce(np.maximum, masks, initial)
RECURSIVE reduce_maximum(_, _)
reduce_maximum(masks, initial) ==
    IF masks = <<>> THEN initial
    ELSE reduce_maximum(Tail(masks), np_maximum(initial, Head(masks)))

\* np.stack(masks) of at least one mask
np_stack(masks) ==
    MkArray(<<Len(masks)>> \o masks[1].shape, LAMBDA i : masks[i[1] + 1].data[Tail(i)])

\* lines 134-135
Labels(vertex_lists, shape) ==
    LET e == enumerate(vertex_lists, 1)
    IN  [k \in 1..Len(e) |-> _mask_from_vertices(e[k][2], shape, e[k][1])]

MaxClicks == 4          \* most vertices held at a time, selected or confirmed
SegShapes == {<<1, 2>>, <<1, 2, 3>>, <<2>>}
Columns == {0, 1}
Rows == {0}
Events ==
    [inaxes : {"None", "undo_pos", "ax"}, toolbar_active : {"None", "ZOOM"},
     button : {LEFT_CLICK, 2, RIGHT_CLICK}, xdata : Columns, ydata : Rows]

InitSeg ==
    /\ CallIdle /\ FlipIdle /\ CenteredIdle /\ WarnIdle /\ OtherIdle /\ PadIdle
    /\ pc = "seg_call"
    /\ image_shape \in SegShapes
    /\ return_all \in BOOLEAN
    /\ list_of_vertex_lists = <<>> /\ polygons_drawn = <<>>
    /\ temp_list = <<>> /\ preview_polygon_drawn = <<>>
    /\ collections = <<>> /\ labels = NoArray /\ seg_raised = "none"

othervars == <<callvars, centeredvars, warnvars, othercall, padvars>>

\* lines 66-132: the lists are created, the image is checked and the window is shown
Show ==
    /\ pc = "seg_call"
    /\ IF Len(image_shape) \notin {2, 3}
       THEN seg_raised' = "ValueError: Only 2D grayscale or RGB images" /\ pc' = "seg_raised"
       ELSE seg_raised' = seg_raised /\ pc' = "seg_show"
    /\ UNCHANGED <<othervars, image_shape, return_all, seglists, collections, labels>>

\* lines 81-87: the undo button is clicked
_undo ==
    /\ pc = "seg_show"
    /\ IF list_of_vertex_lists # <<>>
       THEN /\ list_of_vertex_lists' = Pop(list_of_vertex_lists)
            /\ IF polygons_drawn = <<>>
               THEN /\ seg_raised' = "IndexError: pop from empty list"
                    /\ UNCHANGED <<polygons_drawn, collections>>
               ELSE /\ polygons_drawn' = Pop(polygons_drawn)
                    /\ collections' = ListRemove(collections, Last(polygons_drawn))
                    /\ seg_raised' = seg_raised
       ELSE UNCHANGED <<list_of_vertex_lists, polygons_drawn, collections, seg_raised>>
    /\ UNCHANGED <<othervars, image_shape, return_all, temp_list, preview_polygon_drawn,
                   labels, pc>>

\* lines 101-110: an accepted left click
SelectVertex(event) ==
    /\ temp_list' = Append(temp_list, <<event.xdata, event.ydata>>)
    /\ \E polygon_object \in {_draw_polygon(temp_list', "alpha / 1.4")} :
          IF preview_polygon_drawn # <<>>
          THEN /\ preview_polygon_drawn' = Append(Pop(preview_polygon_drawn), polygon_object)
               /\ collections' = Append(ListRemove(collections, Last(preview_polygon_drawn)),
                                        polygon_object)
          ELSE /\ preview_polygon_drawn' = Append(preview_polygon_drawn, polygon_object)
               /\ collections' = Append(collections, polygon_object)
    /\ UNCHANGED <<list_of_vertex_lists, polygons_drawn, seg_raised>>

\* lines 112-128: an accepted right click
ConfirmSelection(event) ==
    IF temp_list = <<>>
    THEN UNCHANGED <<seglists, collections, seg_raised>>
    ELSE /\ list_of_vertex_lists' = Append(list_of_vertex_lists, temp_list)
         /\ \E polygon_object \in {_draw_polygon(temp_list, "alpha")} :
               /\ polygons_drawn' = Append(polygons_drawn, polygon_object)
               /\ IF preview_polygon_drawn = <<>>
                  THEN /\ seg_raised' = "IndexError: pop from empty list"
                       /\ collections' = Append(collections, polygon_object)
                       /\ UNCHANGED <<temp_list, preview_polygon_drawn>>
                  ELSE /\ preview_polygon_drawn' = Pop(preview_polygon_drawn)
                       /\ collections' = ListRemove(Append(collections, polygon_object),
                                                    Last(preview_polygon_drawn))
                       /\ temp_list' = <<>>
                       /\ seg_raised' = seg_raised

\* the number of vertices in the open selection and the confirmed polygons
RECURSIVE TotalLen(_)
TotalLen(lists) == IF lists = <<>> THEN 0 ELSE Len(Head(lists)) + TotalLen(Tail(lists))
VerticesHeld == Len(temp_list) + TotalLen(list_of_vertex_lists)

\* the click is not recorded (lines 94-99)
Ignored(event) ==
    \/ event.inaxes \in {"None", "undo_pos"}
    \/ event.toolbar_active # "None"

\* lines 93-128: the button_press_event handler on one event
ExtendPolygonOn(event) ==
    /\ pc = "seg_show"
    /\ IF Ignored(event) THEN UNCHANGED <<seglists, collections, seg_raised>>
       ELSE IF event.button = LEFT_CLICK
       THEN VerticesHeld < MaxClicks /\ SelectVertex(event)
       ELSE IF event.button = RIGHT_CLICK
       THEN ConfirmSelection(event)
       ELSE UNCHANGED <<seglists, collections, seg_raised>>
    /\ UNCHANGED <<othervars, image_shape, return_all, labels, pc>>

_extend_polygon == \E event \in Events : ExtendPolygonOn(event)

\* lines 132-139: the window is closed, plt.show returns and the labels are built
Return ==
    /\ pc = "seg_show"
    /\ \E masks \in {Labels(list_of_vertex_lists, SubSeq(image_shape, 1, 2))} :
          IF return_all
          THEN IF masks = <<>>
               THEN /\ seg_raised' = "ValueError: need at least one array"
                    /\ labels' = labels
                    /\ pc' = "seg_raised"
               ELSE /\ labels' = np_stack(masks)
                    /\ seg_raised' = seg_raised
                    /\ pc' = "seg_returned"
          ELSE /\ labels' = reduce_maximum(masks, Full(SubSeq(image_shape, 1, 2), 0))
               /\ seg_raised' = seg_raised
               /\ pc' = "seg_returned"
    /\ UNCHANGED <<othervars, image_shape, return_all, seglists, collections>>

NextSeg == Show \/ _undo \/ _extend_polygon \/ Return

SpecSeg == InitSeg /\ [][NextSeg]_vars

InSegmentation == pc \in {"seg_show", "seg_returned", "seg_raised"}
\* the 1-based positions of the remaining polygons that cover pixel p
Covering(p) ==
    {i \in 1..Len(list_of_vertex_lists) :
        p \in polygon([k \in 1..Len(list_of_vertex_lists[i]) |-> list_of_vertex_lists[i][k][2]],
                      [k \in 1..Len(list_of_vertex_lists[i]) |-> list_of_vertex_lists[i][k][1]],
                      SubSeq(image_shape, 1, 2))}
\* an accepted right click on a non-empty selection
Confirmation(event) ==
    /\ ~ Ignored(event) /\ event.button = RIGHT_CLICK /\ temp_list # <<>>
    /\ ExtendPolygonOn(event)

\* the returned label image: the latest covering polygon's position, 0 where none covers
LabelLaw ==
    (pc = "seg_returned" /\ ~ return_all) =>
        /\ labels.shape = SubSeq(image_shape, 1, 2)
        /\ \A p \in Idx(labels.shape) :
               labels.data[p] = IF Covering(p) = {} THEN 0 ELSE SetMax(Covering(p))
\* a confirmation appends the selection, an undo removes the latest remaining polygon
\* or nothing when none remains, and no other step changes the remaining polygons
RemainingLaw ==
    /\ \A event \in Events :
           Confirmation(event) => list_of_vertex_lists' = Append(list_of_vertex_lists, temp_list)
    /\ _undo =>
           IF list_of_vertex_lists = <<>> THEN UNCHANGED vars
           ELSE list_of_vertex_lists' =
                    SubSeq(list_of_vertex_lists, 1, Len(list_of_vertex_lists) - 1)
    /\ (~ _undo /\ \A event \in Events : ~ Confirmation(event)) =>
           UNCHANGED list_of_vertex_lists

\* C13: with return_all = False the returned label image is determined by the
\* confirmed polygons that were not undone, in confirmation order: the i-th remaining
\* polygon carries label i, a pixel covered by several carries the label of the latest,
\* a pixel covered by none is 0; each undo removes exactly the most recently confirmed
\* remaining polygon and an undo with none remaining changes nothing.
C13_LabelLaw == [] LabelLaw /\ [][RemainingLaw]_vars

\* a returned label image of two remaining polygons that overlap: one pixel carries
\* the label of the first, one covered by both carries the label of the second
C13_Witness ==
    /\ pc = "seg_returned" /\ ~ return_all
    /\ Len(list_of_vertex_lists) = 2
    /\ \E p \in Idx(labels.shape) : Covering(p) = {1, 2} /\ labels.data[p] = 2
    /\ \E p \in Idx(labels.shape) : labels.data[p] = 1

\* the lists agree in length, the preview is there exactly while a selection is open,
\* and no handler popped from an empty list
ListLaw ==
    InSegmentation =>
        /\ Len(list_of_vertex_lists) = Len(polygons_drawn)
        /\ Len(preview_polygon_drawn) <= 1
        /\ (Len(preview_polygon_drawn) = 1) <=> (temp_list # <<>>)
        /\ seg_raised # "IndexError: pop from empty list"
\* a confirmation empties the selection and the preview, an undo leaves both alone,
\* and a click that is not recorded changes no list
HandlerLaw ==
    /\ \A event \in Events :
           Confirmation(event) =>
               /\ preview_polygon_drawn # <<>>
               /\ temp_list' = <<>> /\ preview_polygon_drawn' = <<>>
    /\ _undo => UNCHANGED <<temp_list, preview_polygon_drawn>>
    /\ \A event \in Events :
           (Ignored(event) /\ ExtendPolygonOn(event)) => UNCHANGED seglists

\* C17: after any sequence of accepted left clicks, right clicks and undo presses,
\* list_of_vertex_lists and polygons_drawn have the same length; preview_polygon_drawn
\* holds at most one polygon and holds one exactly when temp_list is non-empty, so a
\* confirming right click never pops from an empty preview list; after a confirmation
\* temp_list and preview_polygon_drawn are empty; undo never changes temp_list or the
\* preview; clicks outside the axes, on the undo button or while a toolbar tool is
\* active change none of these lists.
C17_ListLaw == [] ListLaw /\ [][HandlerLaw]_vars

\* a selection of two vertices is open, with its one preview, next to a confirmed polygon
C17_Witness ==
    /\ pc = "seg_show"
    /\ Len(temp_list) = 2 /\ Len(preview_polygon_drawn) = 1
    /\ Len(list_of_vertex_lists) = 1 /\ Len(polygons_drawn) = 1
    /\ Len(collections) = 2

-----------------------------------------------------------------------------
(* Two calls of mnxc that differ in their images only *)

MaskedShape == <<1, 3>>
\* the masks of the two calls: every sample valid, or all but the middle one, in one
\* image at most, so that every offset has overlapping valid samples
MaskChoices ==
    {k \in {Full(MaskedShape, TRUE), MkArray(MaskedShape, LAMBDA i : i[2] # 1)} \X
            {Full(MaskedShape, TRUE), MkArray(MaskedShape, LAMBDA i : i[2] # 1)} :
        k[1] = Full(MaskedShape, TRUE) \/ k[2] = Full(MaskedShape, TRUE)}
\* the images that differ from `a` in at most one sample
NearImages(a) ==
    {b \in ArraysOf(a.shape, PixelValues) :
        Cardinality({i \in Idx(a.shape) : a.data[i] # b.data[i]}) <= 1}

InitOther ==
    /\ \E a1 \in ArraysOf(MaskedShape, PixelValues), a2 \in ArraysOf(MaskedShape, PixelValues),
          k \in MaskChoices :
          /\ heap = [o \in ObjIds |->
                        IF o = "arr1" THEN a1 ELSE IF o = "arr2" THEN a2
                        ELSE IF o = "m1" THEN k[1] ELSE IF o = "m2" THEN k[2] ELSE NoArray]
          /\ other_arr1 \in NearImages(a1)
          /\ other_arr2 \in NearImages(a2)
    /\ mode \in {"full", "same"}
    /\ axes = <<0, 1>>
    /\ overlap_ratio = Rat(3, 10)
    /\ NoLocals
    /\ FlipIdle /\ CenteredIdle /\ WarnIdle /\ SegIdle /\ PadIdle
    /\ other_out = NoArray
    /\ pc = "other_call"

\* mnxc is called on the caller's arrays, and again with the other images and the
\* same masks, mode, axes and overlap_ratio
CallBoth ==
    /\ pc = "other_call"
    /\ ModeValid(mode)
    /\ ShapeCheckFailures(heap["arr1"].shape, heap["arr2"].shape, axes) = {}
    /\ out' = mnxc(heap["arr1"], heap["arr2"], heap["m1"], heap["m2"],
                   mode, axes, overlap_ratio)
    /\ other_out' = mnxc(other_arr1, other_arr2, heap["m1"], heap["m2"],
                         mode, axes, overlap_ratio)
    /\ pc' = "other_done"
    /\ UNCHANGED <<heap, args, locals, surfaces, transforms, raised, flipvars,
                   centeredvars, warnvars, segvars, padvars, other_arr1, other_arr2>>

NextOther == CallBoth

SpecOther == InitOther /\ [][NextOther]_vars

\* the two calls' images agree wherever the corresponding mask is true
AgreeOnValid ==
    /\ \A i \in Idx(heap["arr1"].shape) :
           heap["m1"].data[i] => other_arr1.data[i] = heap["arr1"].data[i]
    /\ \A i \in Idx(heap["arr2"].shape) :
           heap["m2"].data[i] => other_arr2.data[i] = heap["arr2"].data[i]

\* C14: two calls of mnxc with the same masks, mode, axes and overlap_ratio whose
\* images agree at every position where the corresponding mask is true return equal
\* outputs: the result does not depend on image values at masked-out positions.
C14_MaskedValuesLaw ==
    (pc = "other_done" /\ AgreeOnValid) => out = other_out

\* two calls that differ at a masked-out sample and return a nonzero correlation
C14_Witness ==
    /\ pc = "other_done" /\ AgreeOnValid
    /\ (other_arr1 # heap["arr1"] \/ other_arr2 # heap["arr2"])
    /\ \E i \in Idx(out.shape) : out.data[i] # Zero

-----------------------------------------------------------------------------
(* The surfaces at a transform length of the caller's choice *)

MaxPad == 2             \* largest excess of a transform length over final_shape
PadAxes == {<<1>>, <<0, 1>>, <<-2, -1>>}

\* final_shape of the call in the heap
PadFinalShape == FinalShape(heap["arr1"].shape, heap["arr2"].shape, axes)
\* final_shape along the transform axes, in the order of `axes`
ExactLengths == [i \in 1..Len(axes) |-> PadFinalShape[Pos(axes[i], Len(PadFinalShape))]]

InitPad ==
    /\ \E c \in PairCalls :
          heap = [o \in ObjIds |->
                     IF o = "arr1" THEN c.arr1 ELSE IF o = "arr2" THEN c.arr2
                     ELSE IF o = "m1" THEN c.m1 ELSE IF o = "m2" THEN c.m2 ELSE NoArray]
    /\ mode = "full"
    /\ axes \in PadAxes
    /\ overlap_ratio = Rat(3, 10)
    /\ NoLocals
    /\ FlipIdle /\ CenteredIdle /\ WarnIdle /\ SegIdle /\ OtherIdle
    /\ \E pad \in [1..Len(axes) -> 0..MaxPad] :
          fast_shape = [i \in 1..Len(axes) |-> ExactLengths[i] + pad[i]]
    /\ exact_surfaces = NoSurfaces
    /\ pc = "pad_call"

\* lines 87-133 twice: with transforms of lengths fast_shape, and with transforms of
\* exactly final_shape
PadCall ==
    /\ pc = "pad_call"
    /\ \E fimg \in {MaskedZero(heap["arr1"], heap["m1"])},
          mimg \in {MaskedZero(heap["arr2"], heap["m2"])} :
          /\ \E sf \in {SurfacesAt(fimg, heap["m1"], mimg, heap["m2"], axes, fast_shape)} :
                /\ numerator' = sf.numerator
                /\ denom' = sf.denom
                /\ number_overlap_masked_px' = sf.number_overlap_masked_px
          /\ exact_surfaces' =
                 SurfacesAt(fimg, heap["m1"], mimg, heap["m2"], axes, ExactLengths)
    /\ pc' = "pad_done"
    /\ UNCHANGED <<heap, args, locals, out, transforms, raised, flipvars,
                   centeredvars, warnvars, segvars, othercall, fast_shape>>

NextPad == PadCall

SpecPad == InitPad /\ [][NextPad]_vars

\* C15: for transform lengths at or above final_shape along every transform axis, the
\* overlap count, numerator and denominator computed at those lengths and cut to the
\* first final_shape entries equal the ones computed at exactly final_shape; the fast
\* lengths the code chooses are such lengths.
C15_PaddingLaw ==
    /\ pc = "pad_done" =>
          /\ number_overlap_masked_px = exact_surfaces.number_overlap_masked_px
          /\ numerator = exact_surfaces.numerator
          /\ denom = exact_surfaces.denom
          /\ numerator.shape = PadFinalShape
    /\ pc \in {"pad_call", "pad_done"} =>
          \A i \in 1..Len(axes) : FastShape(PadFinalShape, axes)[i] >= ExactLengths[i]

\* surfaces with a nonzero numerator and a nonzero denominator, computed with
\* transforms longer than final_shape along every transform axis
C15_Witness ==
    /\ pc = "pad_done"
    /\ \A i \in 1..Len(axes) : fast_shape[i] > ExactLengths[i]
    /\ \E i \in Idx(numerator.shape) : numerator.data[i] # RatInt(0)
    /\ \E i \in Idx(denom.shape) : denom.data[i] # Sqrt(RatInt(0))

-----------------------------------------------------------------------------
(* The overlap count of mnxc *)

\* the number of pairs of a valid fixed sample p and a valid moving sample q at the
\* relative shift of output index i: p - q = i - (size_moving - 1) along the transform
\* axes, p = q = i along the others
CoValidPairs(i) ==
    Cardinality({pq \in Idx(FixedShape) \X Idx(MovingShape) :
        /\ heap["m1"].data[pq[1]] /\ heap["m2"].data[pq[2]]
        /\ \A k \in 1..Rank :
              IF IsTransformAxis(k)
              THEN pq[1][k] - pq[2][k] = i[k] - (MovingShape[k] - 1)
              ELSE pq[1][k] = i[k] /\ pq[2][k] = i[k]})

\* C16: at every offset of the full-mode surface the overlap count is the number of
\* position pairs at that relative shift where both masks are true, replaced by
\* machine epsilon when that number is 0; it is strictly positive everywhere.
C16_OverlapLaw ==
    (pc \in {"correlated", "done"} /\ mode = "full") =>
        \A i \in Idx(number_overlap_masked_px.shape) :
            /\ number_overlap_masked_px.data[i] =
                   IF CoValidPairs(i) = 0 THEN eps ELSE Dy(CoValidPairs(i), 0)
            /\ number_overlap_masked_px.data[i].n > 0

\* a full-mode surface with an offset where no valid samples meet, one where exactly
\* one pair meets and one where several meet, under masks that are not all true
C16_Witness ==
    /\ pc = "correlated" /\ mode = "full"
    /\ \E i \in Idx(number_overlap_masked_px.shape) : number_overlap_masked_px.data[i] = eps
    /\ \E i \in Idx(number_overlap_masked_px.shape) : number_overlap_masked_px.data[i] = Dy(1, 0)
    /\ \E i \in Idx(number_overlap_masked_px.shape) : number_overlap_masked_px.data[i] = Dy(2, 0)
    /\ \E j \in Idx(MovingShape) : ~ heap["m2"].data[j]

=============================================================================
